---- MODULE Spec2Model ----
(***************************************************************************)
(* State-machine model of the FishTracker view                             *)
(* (src/project/src/components/FishTracker.jsx).                           *)
(*                                                                         *)
(* The view holds three React state cells (catches, isModalOpen, loading)  *)
(* and one form store.  Two asynchronous operations talk to the storage    *)
(* collaborator: loadCatches (Fish.list) and handleAddCatch (Fish.create). *)
(* Each handler runs to its await in one step and resumes in a later step  *)
(* when the collaborator settles the call; the collaborator is a black     *)
(* box, so a settlement picks its outcome and its data freely.             *)
(*                                                                         *)
(* Weights are integers counting quarters of a pound.  A multiple of       *)
(* 0.25 lb is a number binary floating point represents exactly, so the    *)
(* sums below are the sums the program computes, and the one inexact       *)
(* operation left, the division of the average, is modelled with the       *)
(* rounding of an IEEE 754 double.                                         *)
(***************************************************************************)
EXTENDS Integers, Sequences, FiniteSets, TLC

\* Longest record list over which the statistics are computed.
MaxRecords == 3
\* Longest record list of quarter-pound catches (ten records are the fewest
\* whose average is a tie of hundredths that no double represents).
MaxLongRecords == 10
\* Number of create calls issued in one run.
MaxCreateCalls == 2

VARIABLES
    catches,        \* useState([])    : the records shown
    isModalOpen,    \* useState(false) : modal visibility
    loading,        \* useState(false) : table spinner
    form,           \* Form.useForm()  : field name -> entered value
    mounted,        \* the mount effect has run
    listInFlight,   \* number of Fish.list() calls awaiting settlement
    createInFlight, \* payloads of the Fish.create() calls awaiting settlement
    messages,       \* notifications emitted so far (message.success/error)
    listCalls,      \* number of Fish.list() calls issued
    createCalls,    \* number of Fish.create() calls issued
    createOk,       \* number of create calls settled with success = true
    served,         \* data of the latest successful list response
    race,           \* history of the current run of overlapping submissions
    step            \* the handler that ran last

vars == <<catches, isModalOpen, loading, form, mounted, listInFlight,
          createInFlight, messages, listCalls, createCalls, createOk,
          served, race, step>>

----------------------------------------------------------------------------
(* Data *)

\* Weights of the records, in quarters of a pound.
Weights == {0, 1, 2, 3}

\* A weight as the collaborator returns it: present or missing.
WeightOptions == {{}} \cup {{w} : w \in Weights}

\* In the long lists every record weighs 0.25 lb or has no weight.
LongWeightOptions == {{}, {1}}

\* A record as the collaborator returns it; the weight may be missing.
Fish(i, option) ==
    IF option = {} THEN [id |-> i]
    ELSE [id |-> i, weight |-> CHOOSE w \in option : TRUE]

ListsOfLen(n, options) == {[i \in 1..n |-> Fish(i, f[i])] : f \in [1..n -> options]}

\* The record lists a list response may carry.
ListData ==
    UNION ({ListsOfLen(n, WeightOptions) : n \in 0..MaxRecords}
               \cup {ListsOfLen(n, LongWeightOptions) : n \in 0..MaxLongRecords})

\* The list responses used where only the view's control flow matters.
SampleLists == {<<>>, <<[id |-> 1, weight |-> 1]>>, <<[id |-> 1, weight |-> 0], [id |-> 2]>>}

Outcomes == {"ok", "fail", "throw"}

LoadError == [type |-> "error", content |-> "Failed to load fish catches"]
AddError == [type |-> "error", content |-> "Failed to add fish catch"]
AddSuccess == [type |-> "success", content |-> "Fish catch added successfully!"]

----------------------------------------------------------------------------
(* The form *)

\* form.resetFields(): no initialValues are given, every field is undefined.
EmptyForm == <<>>

RequiredFields == {"species", "weight", "datecaught", "location"}
TextFields == {"species", "location"}

\* What the user can enter in each field.
FieldInputs(name) ==
    CASE name = "species" -> {"", "Bass"}
      [] name = "weight" -> {1}
      [] name = "datecaught" -> {[year |-> 2024, month |-> 7, day |-> 4]}
      [] name = "location" -> {"Lake"}

SetValue(values, name, v) == (name :> v) @@ values
Without(values, name) == [k \in DOMAIN values \ {name} |-> values[k]]

RulePasses_EmptyTextPasses(values, name) == name \in DOMAIN values

\* rules={[{ required: true }]}: undefined and the empty string fail.
RulePasses(values, name) ==
    /\ name \in DOMAIN values
    /\ (name \in TextFields => values[name] # "")

ValidateFields(values) == \A name \in RequiredFields : RulePasses(values, name)

DigitChars == <<"0", "1", "2", "3", "4", "5", "6", "7", "8", "9">>
Digit(n) == DigitChars[n + 1]
Pad2(n) == Digit((n \div 10) % 10) \o Digit(n % 10)
Pad4(n) == Pad2(n \div 100) \o Pad2(n % 100)

\* dayjs value .format('YYYY-MM-DD')
FormatDate(d) == Pad4(d.year) \o "-" \o Pad2(d.month) \o "-" \o Pad2(d.day)

\* catchData = { ...values, datecaught: values.datecaught.format(...) }
CatchData(values) == SetValue(values, "datecaught", FormatDate(values["datecaught"]))

----------------------------------------------------------------------------
(* Derived statistics, recomputed from catches on every render *)

\* fish.weight || 0
WeightOr0(fish) == IF "weight" \in DOMAIN fish THEN fish.weight ELSE 0

RECURSIVE ReduceSum(_, _)
ReduceSum(list, sum) ==
    IF list = <<>> THEN sum
    ELSE ReduceSum(Tail(list), sum + WeightOr0(Head(list)))

RECURSIVE ReduceMax(_, _)
ReduceMaxStep(max, fish) == IF WeightOr0(fish) > WeightOr0(max) THEN fish ELSE max
ReduceMax(list, max) ==
    IF list = <<>> THEN max
    ELSE ReduceMax(Tail(list), ReduceMaxStep(max, Head(list)))

totalCatches == Len(catches)
totalWeight == ReduceSum(catches, 0)
biggestFish == ReduceMax(catches, [weight |-> 0])

RECURSIVE Pow2Mod200(_)
\* 2^e modulo 200
Pow2Mod200(e) == IF e = 0 THEN 1 ELSE (2 * Pow2Mod200(e - 1)) % 200

RECURSIVE UpShift(_, _)
\* The least t >= from with m * 2^t >= 200, for 0 < m < 200
UpShift(m, from) == IF m * 2^from >= 200 THEN from ELSE UpShift(m, from + 1)

RECURSIVE DownShift(_, _)
\* The least s >= from with m < 400 * 2^s, for m >= 200
DownShift(m, from) == IF m < 400 * 2^from THEN from ELSE DownShift(m, from + 1)

\* The double nearest to m/200 has the 53-bit significand nearest to
\* m * 2^e / 200, e being the exponent that puts it in [2^52, 2^53).
SignificandExponent(m) ==
    IF m < 200 THEN 52 + UpShift(m, 0) ELSE 52 - DownShift(m, 0)

\* Whether the double nearest to m/200 lies above m/200, for odd m that is
\* no multiple of 25 (m/200 is then no double, and no tie of doubles).
DoubleIsAbove(m) == ((m % 200) * Pow2Mod200(SignificandExponent(m))) % 200 > 100

ToFixed2_Truncates(num, den) ==
    LET n == (25 * num) \div den
    IN  [text |-> TRUE, whole |-> n \div 100, decimals |-> n % 100]

\* Number.prototype.toFixed(2) of the double nearest to (num/4)/den, for
\* num >= 0 quarters of a pound and den > 0: the hundredth nearest to that
\* double, the larger one when the double is itself a tie, printed with two
\* decimals (the pair of the integer part and the two decimals).  The
\* quotient in hundredths is 25*num/den.  Off a tie the double rounds as
\* the exact quotient does; on a tie m/200 the double is exact when 25
\* divides m, and otherwise lies strictly on one side of the tie.
ToFixed2(num, den) ==
    LET lo == (25 * num) \div den
        twiceRest == 2 * ((25 * num) % den)
        m == 2 * lo + 1
        n == IF twiceRest < den THEN lo
             ELSE IF twiceRest > den THEN lo + 1
             ELSE IF m % 25 = 0 THEN lo + 1
             ELSE IF DoubleIsAbove(m) THEN lo + 1
             ELSE lo
    IN  [text |-> TRUE, whole |-> n \div 100, decimals |-> n % 100]

\* totalCatches > 0 ? (totalWeight / totalCatches).toFixed(2) : 0
averageWeight ==
    IF totalCatches > 0 THEN ToFixed2(totalWeight, totalCatches)
    ELSE [text |-> FALSE, number |-> 0]

\* value={biggestFish.weight || 0}
biggestFishValue == WeightOr0(biggestFish)
\* formatter={(value) => value > 0 ? `${value} lbs` : 'None yet'}
BiggestFishFormatter(value) ==
    IF value > 0 THEN [shown |-> "weight", weight |-> value]
    ELSE [shown |-> "None yet"]
biggestFishCard == BiggestFishFormatter(biggestFishValue)

----------------------------------------------------------------------------
(* History of overlapping submissions *)

NoRace == [quiet |-> FALSE, values |-> EmptyForm, sent |-> 0, log |-> <<>>]

\* A user action other than a submission ends the run being recorded.
Disturb == race' = NoRace

----------------------------------------------------------------------------
(* Operations *)

Init ==
    /\ catches = <<>>
    /\ isModalOpen = FALSE
    /\ loading = FALSE
    /\ form = EmptyForm
    /\ mounted = FALSE
    /\ listInFlight = 0
    /\ createInFlight = <<>>
    /\ messages = <<>>
    /\ listCalls = 0
    /\ createCalls = 0
    /\ createOk = 0
    /\ served = <<>>
    /\ race = NoRace
    /\ step = "Init"

\* loadCatches up to its await: setLoading(true); Fish.list()
LoadCatchesCall ==
    /\ loading' = TRUE
    /\ listInFlight' = listInFlight + 1
    /\ listCalls' = listCalls + 1

LoadCatchesSettled_NoFinally(outcome, data) ==
    /\ catches' = IF outcome = "ok" THEN data ELSE catches
    /\ messages' = IF outcome = "throw" THEN Append(messages, LoadError) ELSE messages
    /\ loading' = IF outcome = "throw" THEN loading ELSE FALSE

LoadCatchesSettled_ClearsOnFailure(outcome, data) ==
    /\ catches' = IF outcome = "ok" THEN data ELSE <<>>
    /\ messages' = IF outcome = "throw" THEN Append(messages, LoadError) ELSE messages
    /\ loading' = FALSE

\* loadCatches from its await on: the call settled with `outcome`.
LoadCatchesSettled(outcome, data) ==
    /\ catches' = IF outcome = "ok" THEN data ELSE catches
    /\ messages' = IF outcome = "throw" THEN Append(messages, LoadError) ELSE messages
    /\ loading' = FALSE

\* useEffect(() => { loadCatches() }, [])
Mount ==
    /\ ~mounted
    /\ mounted' = TRUE
    /\ LoadCatchesCall
    /\ step' = "Mount"
    /\ UNCHANGED <<catches, isModalOpen, form, createInFlight, messages,
                   createCalls, createOk, served, race>>

ListSettle(outcome, data) ==
    /\ listInFlight > 0
    /\ listInFlight' = listInFlight - 1
    /\ LoadCatchesSettled(outcome, data)
    /\ served' = IF outcome = "ok" THEN data ELSE served
    /\ step' = CASE outcome = "ok" -> "ListOk"
                 [] outcome = "fail" -> "ListFail"
                 [] outcome = "throw" -> "ListThrow"
    /\ UNCHANGED <<isModalOpen, form, mounted, createInFlight, listCalls,
                   createCalls, createOk, race>>

\* Add New Catch button: setIsModalOpen(true)
OpenModal ==
    /\ mounted
    /\ isModalOpen' = TRUE
    /\ step' = "Open"
    /\ Disturb
    /\ UNCHANGED <<catches, loading, form, mounted, listInFlight, createInFlight,
                   messages, listCalls, createCalls, createOk, served>>

CancelModal_KeepsFields ==
    /\ isModalOpen
    /\ isModalOpen' = FALSE
    /\ step' = "Cancel"
    /\ Disturb
    /\ UNCHANGED <<catches, loading, form, mounted, listInFlight, createInFlight,
                   messages, listCalls, createCalls, createOk, served>>

\* Modal onCancel and the Cancel button: setIsModalOpen(false); form.resetFields()
CancelModal ==
    /\ isModalOpen
    /\ isModalOpen' = FALSE
    /\ form' = EmptyForm
    /\ step' = "Cancel"
    /\ Disturb
    /\ UNCHANGED <<catches, loading, mounted, listInFlight, createInFlight,
                   messages, listCalls, createCalls, createOk, served>>

\* The user types into, or clears, a field of the open form.
EditField(name, v) ==
    /\ isModalOpen
    /\ form' = SetValue(form, name, v)
    /\ form' # form
    /\ step' = "Edit"
    /\ Disturb
    /\ UNCHANGED <<catches, isModalOpen, loading, mounted, listInFlight,
                   createInFlight, messages, listCalls, createCalls, createOk,
                   served>>

ClearField(name) ==
    /\ isModalOpen
    /\ name \in DOMAIN form
    /\ form' = Without(form, name)
    /\ step' = "Edit"
    /\ Disturb
    /\ UNCHANGED <<catches, isModalOpen, loading, mounted, listInFlight,
                   createInFlight, messages, listCalls, createCalls, createOk,
                   served>>

\* handleAddCatch up to its await: build catchData; Fish.create(catchData)
HandleAddCatchCall(values) ==
    /\ createInFlight' = Append(createInFlight, CatchData(values))
    /\ createCalls' = createCalls + 1

HandleAddCatchSettled_NoReload(outcome) ==
    IF outcome = "ok"
    THEN /\ messages' = Append(messages, AddSuccess)
         /\ isModalOpen' = FALSE
         /\ form' = EmptyForm
         /\ UNCHANGED <<loading, listInFlight, listCalls>>
    ELSE /\ messages' = IF outcome = "throw" THEN Append(messages, AddError)
                        ELSE messages
         /\ UNCHANGED <<isModalOpen, form, loading, listInFlight, listCalls>>

HandleAddCatchSettled_ClosesOnThrow(outcome) ==
    IF outcome = "ok"
    THEN /\ messages' = Append(messages, AddSuccess)
         /\ isModalOpen' = FALSE
         /\ form' = EmptyForm
         /\ LoadCatchesCall
    ELSE /\ messages' = IF outcome = "throw" THEN Append(messages, AddError)
                        ELSE messages
         /\ isModalOpen' = IF outcome = "throw" THEN FALSE ELSE isModalOpen
         /\ form' = IF outcome = "throw" THEN EmptyForm ELSE form
         /\ UNCHANGED <<loading, listInFlight, listCalls>>

\* handleAddCatch from its await on: the call settled with `outcome`.
HandleAddCatchSettled(outcome) ==
    IF outcome = "ok"
    THEN /\ messages' = Append(messages, AddSuccess)
         /\ isModalOpen' = FALSE
         /\ form' = EmptyForm
         /\ LoadCatchesCall
    ELSE /\ messages' = IF outcome = "throw" THEN Append(messages, AddError)
                        ELSE messages
         /\ UNCHANGED <<isModalOpen, form, loading, listInFlight, listCalls>>

\* Add Catch button (htmlType="submit"): the form validates its rules and
\* calls onFinish={handleAddCatch} only when every rule passes.
Submit ==
    /\ isModalOpen
    /\ IF ValidateFields(form)
       THEN /\ createCalls < MaxCreateCalls
            /\ HandleAddCatchCall(form)
            /\ step' = "SubmitValid"
            /\ race' = IF createInFlight = <<>>
                       THEN [quiet |-> TRUE, values |-> form, sent |-> 1, log |-> <<>>]
                       ELSE IF race.quiet
                            THEN [race EXCEPT !.sent = @ + 1]
                            ELSE race
       ELSE /\ step' = "SubmitInvalid"
            /\ UNCHANGED <<createInFlight, createCalls, race>>
    /\ UNCHANGED <<catches, isModalOpen, loading, form, mounted, listInFlight,
                   messages, listCalls, createOk, served>>

CreateSettle(i, outcome) ==
    /\ i \in 1..Len(createInFlight)
    /\ createInFlight' = SubSeq(createInFlight, 1, i - 1)
                             \o SubSeq(createInFlight, i + 1, Len(createInFlight))
    /\ HandleAddCatchSettled(outcome)
    /\ createOk' = IF outcome = "ok" THEN createOk + 1 ELSE createOk
    /\ race' = IF race.quiet THEN [race EXCEPT !.log = Append(@, outcome)] ELSE race
    /\ step' = CASE outcome = "ok" -> "CreateOk"
                 [] outcome = "fail" -> "CreateFail"
                 [] outcome = "throw" -> "CreateThrow"
    /\ UNCHANGED <<catches, mounted, createCalls, served>>

ListSettles == \E outcome \in Outcomes, data \in SampleLists : ListSettle(outcome, data)
CreateSettles ==
    \E i \in 1..MaxCreateCalls + 1, outcome \in Outcomes : CreateSettle(i, outcome)
EditFields == \E name \in RequiredFields : \E v \in FieldInputs(name) : EditField(name, v)
ClearFields == \E name \in RequiredFields : ClearField(name)

Next ==
    \/ Mount
    \/ ListSettles
    \/ OpenModal
    \/ CancelModal
    \/ EditFields
    \/ ClearFields
    \/ Submit
    \/ CreateSettles

Spec == Init /\ [][Next]_vars

\* Every list call the collaborator receives is eventually settled.
FairSpec == Spec /\ WF_vars(ListSettles)

\* The statistics over every record list the first load can deliver.
StatsListSettles == \E outcome \in Outcomes, data \in ListData : ListSettle(outcome, data)
StatsNext ==
    \/ Mount
    \/ StatsListSettles
StatsSpec == Init /\ [][StatsNext]_vars

----------------------------------------------------------------------------
(* Vocabulary of the properties *)

ListFailureSteps == {"ListFail", "ListThrow"}
ListSettleSteps == {"ListOk", "ListFail", "ListThrow"}
CreateFailureSteps == {"CreateFail", "CreateThrow"}
SubmitSteps == {"SubmitValid", "SubmitInvalid"}

\* A required field the user left empty.
FieldEmpty(values, name) ==
    \/ name \notin DOMAIN values
    \/ (name \in TextFields /\ values[name] = "")

SomeRequiredEmpty(values) == \E name \in RequiredFields : FieldEmpty(values, name)

CountOf(log, m) == Cardinality({i \in 1..Len(log) : log[i] = m})

RECURSIVE SumOver(_, _)
\* The sum of the weights at the positions in `indices`, a missing weight
\* counting as 0.
SumOver(list, indices) ==
    IF indices = {} THEN 0
    ELSE LET i == CHOOSE j \in indices : TRUE
         IN  (IF "weight" \in DOMAIN list[i] THEN list[i].weight ELSE 0)
                 + SumOver(list, indices \ {i})

\* An overlapping run of two or more submissions, undisturbed by any other
\* user action, all of whose create calls have settled.
RaceSettled == race.quiet /\ createInFlight = <<>> /\ Len(race.log) >= 2
LastOutcome == race.log[Len(race.log)]

----------------------------------------------------------------------------
(* Properties *)

\* C1: every failed refresh, by the list call throwing or by success = false,
\* leaves records unchanged and emits the load-error notification, so both
\* failure modes end in the same state with the same notification.
C1_RefreshFailureNotifies ==
    [][step' \in ListFailureSteps =>
          /\ catches' = catches
          /\ messages' = Append(messages, LoadError)]_vars

\* C2: every failed submission, by the create call throwing or by
\* success = false, emits the add-error notification, leaves the modal open
\* with the entered values, leaves records unchanged and starts no refresh.
C2_CreateFailureNotifies ==
    [][step' \in CreateFailureSteps =>
          /\ messages' = Append(messages, AddError)
          /\ isModalOpen' = isModalOpen
          /\ form' = form
          /\ catches' = catches
          /\ listCalls' = listCalls
          /\ listInFlight' = listInFlight]_vars

\* C3: a submission of a form with every required field populated issues
\* exactly one create call; a successful create is followed by exactly one
\* success notification, the modal closing, the fields being cleared and
\* exactly one list call; the list calls issued number one (the mount's)
\* plus the successful creates.
C3_OneCreateOneRefetch ==
    /\ [](/\ listCalls = (IF mounted THEN 1 ELSE 0) + createOk
          /\ CountOf(messages, AddSuccess) = createOk)
    /\ [][/\ (step' \in SubmitSteps /\ ~SomeRequiredEmpty(form)) =>
                 /\ createCalls' = createCalls + 1
                 /\ Len(createInFlight') = Len(createInFlight) + 1
                 /\ listCalls' = listCalls
          /\ step' = "CreateOk" =>
                 /\ messages' = Append(messages, AddSuccess)
                 /\ ~isModalOpen'
                 /\ form' = EmptyForm
                 /\ listCalls' = listCalls + 1
                 /\ listInFlight' = listInFlight + 1
                 /\ createCalls' = createCalls]_vars

C3_Witness ==
    /\ step = "CreateOk"
    /\ createOk = 2
    /\ listCalls = 3
    /\ ~isModalOpen

\* C4: every settlement of a list call, whatever its outcome, sets loading to
\* false; loading is false whenever no list call is in flight, and, every
\* list call being settled eventually, loading always becomes false again.
C4_LoadingCleared ==
    /\ [](listInFlight = 0 => ~loading)
    /\ [][step' \in ListSettleSteps => ~loading']_vars
    /\ (loading ~> ~loading)

C4_Witness ==
    /\ step = "ListThrow"
    /\ listCalls = 2
    /\ listInFlight = 0
    /\ ~loading

\* C5: a submit attempt with a required field empty issues no create call
\* and changes neither records nor the modal; every create call in flight
\* carries all four required fields.
C5_EmptyFieldBlocksSubmit ==
    /\ [][(step' \in SubmitSteps /\ SomeRequiredEmpty(form)) =>
              /\ createCalls' = createCalls
              /\ createInFlight' = createInFlight
              /\ catches' = catches
              /\ isModalOpen' = isModalOpen]_vars
    /\ [](\A i \in 1..Len(createInFlight) : ~SomeRequiredEmpty(createInFlight[i]))

C5_Witness ==
    /\ step = "SubmitInvalid"
    /\ "species" \in DOMAIN form
    /\ form["species"] = ""
    /\ {"weight", "datecaught", "location"} \subseteq DOMAIN form
    /\ isModalOpen

\* C6: records changes only when a list call settles with success, and then
\* becomes the returned data; in every state records is the data of the
\* latest successful list response, or empty when there was none.
C6_NoOptimisticUpdate ==
    /\ [](catches = served)
    /\ [][step' # "ListOk" => catches' = catches]_vars

C6_Witness ==
    /\ step = "CreateOk"
    /\ catches # <<>>
    /\ listInFlight > 0

\* C7 as stated: after two overlapping submissions have both settled, the
\* modal and the fields are what the later-settling outcome alone gives:
\* closed and cleared if it succeeded, open with the values if it failed.
C7_LastSettledDecides ==
    RaceSettled =>
        IF LastOutcome = "ok"
        THEN ~isModalOpen /\ form = EmptyForm
        ELSE isModalOpen /\ form = race.values

\* C7 amended: every overlapping submission issues its own create call, and
\* after they have all settled the modal is closed with the fields cleared
\* if any of them succeeded, and open with the entered values intact only if
\* all of them failed.
C7_AnySuccessCloses ==
    /\ race.quiet => Len(createInFlight) + Len(race.log) = race.sent
    /\ RaceSettled =>
           IF \E i \in 1..Len(race.log) : race.log[i] = "ok"
           THEN ~isModalOpen /\ form = EmptyForm
           ELSE isModalOpen /\ form = race.values

C7_Witness ==
    /\ RaceSettled
    /\ race.sent = 2
    /\ race.log = <<"throw", "fail">>
    /\ isModalOpen

\* C8: the modal opens only by the Add New Catch action and closes only by a
\* cancel or a successful create; every closing clears the fields; a cancel
\* issues neither a create call nor a list call.
C8_ModalLifecycle ==
    [][/\ (~isModalOpen /\ isModalOpen') => step' = "Open"
       /\ (isModalOpen /\ ~isModalOpen') =>
              /\ step' \in {"Cancel", "CreateOk"}
              /\ form' = EmptyForm
       /\ step' = "Cancel" =>
              /\ createCalls' = createCalls
              /\ createInFlight' = createInFlight
              /\ listCalls' = listCalls
              /\ listInFlight' = listInFlight]_vars

C8_Witness ==
    /\ step = "Cancel"
    /\ ~isModalOpen
    /\ form = EmptyForm
    /\ createInFlight # <<>>

\* C9: for non-empty records biggestFish is one of the records and no record
\* outweighs it, and the card shows its weight; the placeholder is shown
\* exactly when records is empty.
C9_BiggestFish ==
    /\ catches # <<>> =>
           /\ \E i \in 1..Len(catches) : biggestFish = catches[i]
           /\ \A i \in 1..Len(catches) : WeightOr0(biggestFish) >= WeightOr0(catches[i])
           /\ biggestFishCard = [shown |-> "weight", weight |-> WeightOr0(biggestFish)]
    /\ (biggestFishCard.shown = "None yet") <=> (catches = <<>>)

\* C10: totalWeight is the sum of the weights, a missing weight counting as
\* 0; averageWeight is totalWeight / totalCatches to the nearest hundredth
\* when there are records, and the number 0 when there are none.  With the
\* total in quarters of a pound the quotient is 25 * totalWeight / n
\* hundredths.
C10_TotalAndAverage ==
    /\ totalWeight = SumOver(catches, 1..Len(catches))
    /\ catches # <<>> =>
           LET h == 100 * averageWeight.whole + averageWeight.decimals
               n == totalCatches
           IN  /\ averageWeight.decimals \in 0..99
               /\ 2 * n * h - n <= 50 * totalWeight
               /\ 50 * totalWeight <= 2 * n * h + n
    /\ catches = <<>> => averageWeight = [text |-> FALSE, number |-> 0]

\* Ten records weighing 0.75 lb together: the average 0.075 is a tie whose
\* double lies below it, shown as 0.07.
C10_Witness ==
    /\ step = "ListOk"
    /\ Len(catches) = 10
    /\ "weight" \notin DOMAIN catches[1]
    /\ totalWeight = 3
    /\ averageWeight = [text |-> TRUE, whole |-> 0, decimals |-> 7]

====
